---- MODULE Spec2Model ----
(***************************************************************************)
(* Model of main.py: the LINE webhook handler `callback`, the session map  *)
(* `user_states`, `summarize_with_gpt` and `split_recommendations`.        *)
(*                                                                         *)
(* Text representation.  A Python str is modelled as a sequence of atoms.  *)
(* An atom is a string standing for either one whitespace character (" "   *)
(* or "\n"), one "#" character, or a maximal run of other characters.      *)
(* Every concatenation in main.py happens next to a whitespace character,  *)
(* so str + str is \o on these sequences.  The Japanese literals of        *)
(* main.py are written as ASCII stand-ins of the same shape (no            *)
(* whitespace, no "#"); the line of each literal is given where it is      *)
(* defined.                                                                *)
(***************************************************************************)
EXTENDS Integers, Sequences, FiniteSets, TLC

VARIABLES user_states, remaining, event, replies, gptCalls, status,
          splitFrags, splitIn, splitOut,
          scnUser, scnStep, scnReplies, scnCalls,
          tasks, running

mainVars == <<user_states, remaining, event, replies, gptCalls, status>>
splitVars == <<splitFrags, splitIn, splitOut>>
scnVars == <<scnUser, scnStep, scnReplies, scnCalls>>
concVars == <<tasks, running>>
vars == <<user_states, remaining, event, replies, gptCalls, status,
          splitFrags, splitIn, splitOut,
          scnUser, scnStep, scnReplies, scnCalls,
          tasks, running>>

(***************************************************************************)
(* Bounds of the model.                                                    *)
(***************************************************************************)
NumUsers == 2
MaxEvents == 2
MaxFrags == 6

Users == 1..NumUsers

(***************************************************************************)
(* Literals of main.py.                                                    *)
(***************************************************************************)
\* main.py:15-26, the ten questions, each a run without whitespace or "#"
QUESTIONS ==
  << <<"q-area">>, <<"q-rent-limit">>, <<"q-layout">>, <<"q-walk-minutes">>,
     <<"q-building-age">>, <<"q-pets">>, <<"q-commute">>, <<"q-lifestyle">>,
     <<"q-priority">>, <<"q-move-in">> >>

\* main.py:139, the start keyword
START_KEYWORD == <<"kaishi">>
\* main.py:166, the stop keyword
STOP_KEYWORD == <<"shuryo">>
\* main.py:143-145, the three introductory lines of the start reply
START_INTRO ==
  <<"starting-the-diagnosis", "\n", "\n",
    "answer-the-questions-in-order", "\n",
    "send-shuryo-to-stop", "\n", "\n">>
\* main.py:158, the reply to a user who has not started
PLEASE_START_MSG == <<"send-kaishi-to-begin-the-diagnosis">>
\* main.py:60, the reply of summarize_with_gpt for an empty answer list
NO_ANSWERS_MSG == <<"no-answers-yet-send-kaishi-to-start-over">>
\* main.py:108, the fallback of split_recommendations
GENERATION_FAILED_MSG == <<"could-not-generate-recommendations-try-again">>

DELIM == <<"#", "#", "#">>

(***************************************************************************)
(* str.strip() and str.split("###").                                       *)
(***************************************************************************)
IsSpace(c) == c \in {" ", "\n"}

RECURSIVE lstrip(_)
lstrip(s) ==
  IF s = <<>> \/ ~IsSpace(Head(s)) THEN s ELSE lstrip(Tail(s))

RECURSIVE rstrip(_)
rstrip(s) ==
  IF s = <<>> \/ ~IsSpace(s[Len(s)]) THEN s ELSE rstrip(SubSeq(s, 1, Len(s) - 1))

strip(s) == rstrip(lstrip(s))

\* text.split("###"): scan left to right, cut at each non-overlapping "###"
RECURSIVE SplitFrom(_, _)
SplitFrom(s, cur) ==
  IF s = <<>> THEN <<cur>>
  ELSE IF Len(s) >= 3 /\ SubSeq(s, 1, 3) = DELIM
       THEN <<cur>> \o SplitFrom(SubSeq(s, 4, Len(s)), <<>>)
       ELSE SplitFrom(Tail(s), Append(cur, Head(s)))

split(text) == SplitFrom(text, <<>>)

TextSendMessage(t) == [type |-> "text", text |-> t]

NonBlank(b) == strip(b) # <<>>

\* main.py:104
Blocks(text) ==
  LET parts == SelectSeq(split(text), NonBlank)
  IN [i \in 1..Len(parts) |-> strip(parts[i])]

\* split_recommendations that does not put "### " back in front of the blocks
split_recommendations_NoPrefix(text) ==
  LET blocks == Blocks(text)
  IN IF blocks = <<>>
     THEN <<TextSendMessage(GENERATION_FAILED_MSG)>>
     ELSE [j \in 1..Len(blocks) |-> TextSendMessage(blocks[j])]

\* split_recommendations that takes a text without delimiter for a failed
\* generation
split_recommendations_UndelimitedFails(text) ==
  LET blocks == Blocks(text)
  IN IF Len(blocks) <= 1
     THEN <<TextSendMessage(GENERATION_FAILED_MSG)>>
     ELSE <<TextSendMessage(blocks[1])>> \o
          [j \in 1..(Len(blocks) - 1) |->
             TextSendMessage(<<"#", "#", "#", " ">> \o blocks[j + 1])]

\* main.py:97-117
split_recommendations(text) ==
  LET blocks == Blocks(text)
  IN IF blocks = <<>>
     THEN <<TextSendMessage(GENERATION_FAILED_MSG)>>
     ELSE <<TextSendMessage(blocks[1])>> \o
          [j \in 1..(Len(blocks) - 1) |->
             TextSendMessage(<<"#", "#", "#", " ">> \o blocks[j + 1])]

(***************************************************************************)
(* summarize_with_gpt.  `gen` is what openai_client.chat.completions       *)
(* .create does when it is reached: it raises, or it returns a text.       *)
(***************************************************************************)
\* texts the generation service may return
GenTexts ==
  { <<" ", "\n">>,
    <<"intro", " ", "#", "#", "#", " ", "item1", " ", "#", "#", "#", " ", "item2">>,
    <<"#", "#", "#", "a", "#", "#", "#", "b", "#", "#", "#", "c",
      "#", "#", "#", "d", "#", "#", "#", "e", "#", "#", "#", "f">> }

GenOutcomes ==
  {[raised |-> TRUE, text |-> <<>>]} \cup
  {[raised |-> FALSE, text |-> t] : t \in GenTexts}

\* summarize_with_gpt without the test of main.py:59
summarize_with_gpt_NoEmptyCheck(answers, gen) ==
  [called |-> TRUE, raised |-> gen.raised, text |-> gen.text]

\* main.py:58-93; `called` tells whether the generation service was reached
summarize_with_gpt(answers, gen) ==
  IF answers = <<>>
  THEN [called |-> FALSE, raised |-> FALSE, text |-> NO_ANSWERS_MSG]
  ELSE [called |-> TRUE, raised |-> gen.raised, text |-> gen.text]

(***************************************************************************)
(* The session map, a Python dict: a function on the set of its keys.      *)
(***************************************************************************)
\* main.py:140, user_states[user_id] = {"index": 0, "answers": []}
NewSession == [index |-> 0, answers |-> <<>>]

SetSession(us, user_id, state) ==
  [u \in (DOMAIN us) \cup {user_id} |-> IF u = user_id THEN state ELSE us[u]]

\* a del that empties the whole session map
DelSession_Clears(us, user_id) == <<>>

\* main.py:173 and 199, del user_states[user_id]
DelSession(us, user_id) ==
  [u \in (DOMAIN us) \ {user_id} |-> us[u]]

\* step 4 that, once the questions are used up, records the text as one more
\* answer to the last question
RecordAnswer_PastTheEnd(state, text) ==
  [index |-> state.index + 1,
   answers |-> Append(state.answers,
                 <<QUESTIONS[IF state.index < Len(QUESTIONS)
                             THEN state.index + 1 ELSE Len(QUESTIONS)], text>>)]

\* step 4 that pairs the answer with the question before the current one
RecordAnswer_PreviousQuestion(state, text) ==
  IF state.index < Len(QUESTIONS)
  THEN [index |-> state.index + 1,
        answers |-> Append(state.answers,
                      <<QUESTIONS[IF state.index = 0 THEN 1 ELSE state.index], text>>)]
  ELSE state

\* step 4 without the append of main.py:179
RecordAnswer_NoAppend(state, text) ==
  IF state.index < Len(QUESTIONS)
  THEN [index |-> state.index + 1, answers |-> state.answers]
  ELSE state

\* main.py:177-181, step 4: record the answer to the current question
RecordAnswer(state, text) ==
  IF state.index < Len(QUESTIONS)
  THEN [index |-> state.index + 1,
        answers |-> Append(state.answers, <<QUESTIONS[state.index + 1], text>>)]
  ELSE state

\* main.py:142-147, the reply to the start keyword
StartMessage == START_INTRO \o <<"Q1.", " ">> \o QUESTIONS[1]

\* the prompt of main.py:188 numbered with idx instead of idx+1
QuestionMessage_OffByOne(idx) ==
  <<"Q" \o ToString(idx) \o ".", " ">> \o QUESTIONS[idx + 1]

\* main.py:188, f"Q{idx+1}. {next_q}" with next_q = QUESTIONS[idx]
QuestionMessage(idx) ==
  <<"Q" \o ToString(idx + 1) \o ".", " ">> \o QUESTIONS[idx + 1]

(***************************************************************************)
(* Webhook deliveries.                                                     *)
(***************************************************************************)
\* event.message.text of the text events of the model: the start keyword,
\* the stop keyword and an answer, two of them with whitespace around
RawTexts ==
  { <<"kaishi">>, <<" ", "shuryo", "\n">>, <<" ", "a">> }

\* the events of a delivery; the reply token k of an event is the number of
\* events of its delivery that were not handled when its turn came, so that
\* the events of one delivery have different tokens
TextEvent(u, t, k) ==
  [type |-> "text", user_id |-> u, text |-> t, reply_token |-> k]
\* an event that is not a MessageEvent with a TextMessage
OtherEvent(u, k) ==
  [type |-> "other", user_id |-> u, text |-> <<>>, reply_token |-> k]

EventsAt(k) ==
  {TextEvent(u, t, k) : u \in Users, t \in RawTexts} \cup
  {OtherEvent(u, k) : u \in Users}

NoEvent == [type |-> "none", user_id |-> 0, text |-> <<>>, reply_token |-> 0]

(***************************************************************************)
(* State.                                                                  *)
(*   user_states  the session map (main.py:29)                             *)
(*   remaining    the number of events of the current delivery that the    *)
(*                loop of main.py:131 has not handled yet; the content of  *)
(*                an event is an input drawn when its turn comes           *)
(*   event        the event handled last (NoEvent before the first)        *)
(*   replies      the calls of line_bot_api.reply_message made while       *)
(*                handling `event`, with their outcome                     *)
(*   gptCalls     the answer lists the generation service was called with  *)
(*                while handling `event`                                   *)
(*   status       "idle", "running", or the response of the last request   *)
(***************************************************************************)
MainInit ==
  /\ user_states = <<>>
  /\ remaining = 0
  /\ event = NoEvent
  /\ replies = <<>>
  /\ gptCalls = <<>>
  /\ status = "idle"

\* line_bot_api.reply_message(event.reply_token, messages); ok = it returned
ReplyCall(ev, messages, ok) ==
  [reply_token |-> ev.reply_token, messages |-> messages, ok |-> ok]

\* the loop goes on to the next event, or the request returns "OK" (201)
Continue ==
  /\ remaining' = remaining - 1
  /\ status' = IF remaining = 1 THEN "200" ELSE "running"

\* an exception leaves callback: the rest of the delivery is not handled
Raise ==
  /\ remaining' = 0
  /\ status' = "500"

\* main.py:123-129 with an invalid signature: HTTPException(400)
ReceiveInvalid ==
  /\ status # "running"
  /\ status' = "400"
  /\ UNCHANGED <<user_states, remaining, event, replies, gptCalls>>

\* main.py:123-131 with a valid signature: n events are parsed
Receive(n) ==
  /\ status # "running"
  /\ remaining' = n
  /\ status' = IF n = 0 THEN "200" ELSE "running"
  /\ event' = NoEvent
  /\ replies' = <<>>
  /\ gptCalls' = <<>>
  /\ UNCHANGED user_states

\* the loop of main.py:131 takes the next event, ev
Take(ev) ==
  /\ remaining > 0
  /\ ev.reply_token = remaining
  /\ event' = ev

\* an event that is not a text message makes the handler raise
SkipEvent_Raises(ev) ==
  /\ Take(ev)
  /\ ev.type # "text"
  /\ replies' = <<>>
  /\ gptCalls' = <<>>
  /\ Raise
  /\ UNCHANGED user_states

\* main.py:132-133
SkipEvent(ev) ==
  /\ Take(ev)
  /\ ev.type # "text"
  /\ replies' = <<>>
  /\ gptCalls' = <<>>
  /\ Continue
  /\ UNCHANGED user_states

\* main.py:136
EventText(ev) == strip(ev.text)

\* step 1 that keeps a session that already exists
HandleStart_KeepsSession(ev) ==
  /\ Take(ev)
  /\ ev.type = "text"
  /\ EventText(ev) = START_KEYWORD
  /\ user_states' = IF ev.user_id \in DOMAIN user_states
                    THEN user_states
                    ELSE SetSession(user_states, ev.user_id, NewSession)
  /\ gptCalls' = <<>>
  /\ \E ok \in BOOLEAN :
       /\ replies' = <<ReplyCall(ev, <<TextSendMessage(StartMessage)>>, ok)>>
       /\ IF ok THEN Continue ELSE Raise

\* main.py:138-152, step 1
HandleStart(ev) ==
  /\ Take(ev)
  /\ ev.type = "text"
  /\ EventText(ev) = START_KEYWORD
  /\ user_states' = SetSession(user_states, ev.user_id, NewSession)
  /\ gptCalls' = <<>>
  /\ \E ok \in BOOLEAN :
       /\ replies' = <<ReplyCall(ev, <<TextSendMessage(StartMessage)>>, ok)>>
       /\ IF ok THEN Continue ELSE Raise

\* step 2 that creates a session for the sender
HandleNotStarted_CreatesSession(ev) ==
  /\ Take(ev)
  /\ ev.type = "text"
  /\ EventText(ev) # START_KEYWORD
  /\ ev.user_id \notin DOMAIN user_states
  /\ gptCalls' = <<>>
  /\ user_states' = SetSession(user_states, ev.user_id, NewSession)
  /\ \E ok \in BOOLEAN :
       /\ replies' = <<ReplyCall(ev, <<TextSendMessage(PLEASE_START_MSG)>>, ok)>>
       /\ IF ok THEN Continue ELSE Raise

\* main.py:154-160, step 2
HandleNotStarted(ev) ==
  /\ Take(ev)
  /\ ev.type = "text"
  /\ EventText(ev) # START_KEYWORD
  /\ ev.user_id \notin DOMAIN user_states
  /\ gptCalls' = <<>>
  /\ UNCHANGED user_states
  /\ \E ok \in BOOLEAN :
       /\ replies' = <<ReplyCall(ev, <<TextSendMessage(PLEASE_START_MSG)>>, ok)>>
       /\ IF ok THEN Continue ELSE Raise

\* a finalization that deletes the session also when the generation call
\* raises
Finalize_DeletesOnFailure(ev, us) ==
  \E gen \in GenOutcomes :
    LET res == summarize_with_gpt(us[ev.user_id].answers, gen)
    IN /\ gptCalls' = IF res.called THEN <<us[ev.user_id].answers>> ELSE <<>>
       /\ IF res.raised
          THEN /\ replies' = <<>>
               /\ user_states' = DelSession(us, ev.user_id)
               /\ Raise
          ELSE \E ok \in BOOLEAN :
                 /\ replies' =
                      <<ReplyCall(ev, split_recommendations(res.text), ok)>>
                 /\ IF ok
                    THEN user_states' = DelSession(us, ev.user_id) /\ Continue
                    ELSE user_states' = us /\ Raise

\* a finalization that makes one reply call per segment, all with the reply
\* token of the event
Finalize_ReplyPerSegment(ev, us) ==
  \E gen \in GenOutcomes :
    LET res == summarize_with_gpt(us[ev.user_id].answers, gen)
        messages == split_recommendations(res.text)
    IN /\ gptCalls' = IF res.called THEN <<us[ev.user_id].answers>> ELSE <<>>
       /\ IF res.raised
          THEN /\ replies' = <<>>
               /\ user_states' = us
               /\ Raise
          ELSE /\ replies' =
                    [j \in 1..Len(messages) |-> ReplyCall(ev, <<messages[j]>>, TRUE)]
               /\ user_states' = DelSession(us, ev.user_id)
               /\ Continue

\* main.py:167-173 and 193-199: summarize, split, reply, delete.  `us` is the
\* session map when the finalization starts; gen is the outcome of the
\* generation call if it is made, ok the outcome of the reply call if it is
\* made.
Finalize(ev, us) ==
  \E gen \in GenOutcomes :
    LET res == summarize_with_gpt(us[ev.user_id].answers, gen)
    IN /\ gptCalls' = IF res.called THEN <<us[ev.user_id].answers>> ELSE <<>>
       /\ IF res.raised
          THEN /\ replies' = <<>>
               /\ user_states' = us
               /\ Raise
          ELSE \E ok \in BOOLEAN :
                 /\ replies' =
                      <<ReplyCall(ev, split_recommendations(res.text), ok)>>
                 /\ IF ok
                    THEN user_states' = DelSession(us, ev.user_id) /\ Continue
                    ELSE user_states' = us /\ Raise

\* main.py:162-174, step 3
HandleStop(ev) ==
  /\ Take(ev)
  /\ ev.type = "text"
  /\ EventText(ev) # START_KEYWORD
  /\ ev.user_id \in DOMAIN user_states
  /\ EventText(ev) = STOP_KEYWORD
  /\ Finalize(ev, user_states)

\* main.py:162-163 and 176-199, steps 4 to 6
HandleAnswer(ev) ==
  /\ Take(ev)
  /\ ev.type = "text"
  /\ EventText(ev) # START_KEYWORD
  /\ ev.user_id \in DOMAIN user_states
  /\ EventText(ev) # STOP_KEYWORD
  /\ LET state == RecordAnswer(user_states[ev.user_id], EventText(ev))
         us == SetSession(user_states, ev.user_id, state)
     IN IF state.index < Len(QUESTIONS)
        THEN /\ user_states' = us
             /\ gptCalls' = <<>>
             /\ \E ok \in BOOLEAN :
                  /\ replies' =
                       <<ReplyCall(ev, <<TextSendMessage(QuestionMessage(state.index))>>, ok)>>
                  /\ IF ok THEN Continue ELSE Raise
        ELSE Finalize(ev, us)

\* the variables of the other specifications of this module
Frame == UNCHANGED <<splitFrags, splitIn, splitOut,
                     scnUser, scnStep, scnReplies, scnCalls,
                     tasks, running>>

\* the two requests of the concurrency model
Requests == {1, 2}

\* a request that has not arrived or has been answered
NoTask == [at |-> "none", ev |-> NoEvent, state |-> NewSession]

SplitIdle == splitFrags = <<>> /\ splitIn = <<>> /\ splitOut = <<>>
ScnIdle == scnUser = 0 /\ scnStep = 0 /\ scnReplies = <<>> /\ scnCalls = <<>>
ConcIdle == tasks = [r \in Requests |-> NoTask] /\ running = 0

Init == MainInit /\ SplitIdle /\ ScnIdle /\ ConcIdle

Next ==
  \/ ReceiveInvalid /\ Frame
  \/ \E n \in 0..MaxEvents : Receive(n) /\ Frame
  \/ \E ev \in EventsAt(remaining) : SkipEvent(ev) /\ Frame
  \/ \E ev \in EventsAt(remaining) : HandleStart(ev) /\ Frame
  \/ \E ev \in EventsAt(remaining) : HandleNotStarted(ev) /\ Frame
  \/ \E ev \in EventsAt(remaining) : HandleStop(ev) /\ Frame
  \/ \E ev \in EventsAt(remaining) : HandleAnswer(ev) /\ Frame

Spec == Init /\ [][Next]_vars

(***************************************************************************)
(* split_recommendations on its own.  The input text is built from a list  *)
(* of fragments joined by "###"; every fragment is given with the text     *)
(* that remains of it once surrounding whitespace is removed.              *)
(***************************************************************************)
Frag(raw, core) == [raw |-> raw, core |-> core]

FragSet ==
  { Frag(<<>>, <<>>),
    Frag(<<" ", "\n">>, <<>>),
    Frag(<<"intro", " ">>, <<"intro">>),
    Frag(<<" ", "item1", " ">>, <<"item1">>),
    Frag(<<" ", "item2">>, <<"item2">>),
    Frag(<<"\n", "x", " ", "#", "y", "\n">>, <<"x", " ", "#", "y">>) }

FragLists == UNION {[1..n -> FragSet] : n \in 1..MaxFrags}

RECURSIVE Join(_)
Join(fs) ==
  IF Len(fs) = 1 THEN fs[1].raw
  ELSE fs[1].raw \o DELIM \o Join(Tail(fs))

\* the value of splitOut before split_recommendations has returned; it is
\* not a list split_recommendations can return
NotSplit == <<[type |-> "none", text |-> <<>>]>>

SplitInit ==
  /\ MainInit
  /\ ScnIdle
  /\ ConcIdle
  /\ splitFrags \in FragLists
  /\ splitIn = Join(splitFrags)
  /\ splitOut = NotSplit

\* messages = split_recommendations(reply_text), main.py:168 and 194
SplitCall ==
  /\ splitOut = NotSplit
  /\ splitOut' = split_recommendations(splitIn)
  /\ UNCHANGED <<splitFrags, splitIn>>
  /\ UNCHANGED <<user_states, remaining, event, replies, gptCalls, status>>
  /\ UNCHANGED <<scnUser, scnStep, scnReplies, scnCalls>>
  /\ UNCHANGED <<tasks, running>>

SplitNext == SplitCall

SplitSpec == SplitInit /\ [][SplitNext]_vars

(***************************************************************************)
(* The end-to-end scenario.  After any run of the handler, one user sends  *)
(* the start keyword and then N texts that are not keywords, each in a     *)
(* delivery of its own, and the generation call does not raise.            *)
(*   scnUser     the user of the scenario (0 before it begins)             *)
(*   scnStep     0 before the scenario, 1 when it begins, one more for     *)
(*               each of its messages handled                              *)
(*   scnReplies  the message lists of the reply calls made for the         *)
(*               messages of the scenario, in order                        *)
(*   scnCalls    the generation calls made for them, in order              *)
(***************************************************************************)
ScnBegin(u) ==
  /\ scnStep = 0
  /\ status # "running"
  /\ scnUser' = u
  /\ scnStep' = 1
  /\ scnReplies' = <<>>
  /\ scnCalls' = <<>>
  /\ UNCHANGED <<user_states, remaining, event, replies, gptCalls, status>>
  /\ UNCHANGED <<splitFrags, splitIn, splitOut>>
  /\ UNCHANGED <<tasks, running>>

ScnReceive ==
  /\ scnStep \in 1..(Len(QUESTIONS) + 1)
  /\ Receive(1)
  /\ Frame

ScnTrack ==
  /\ scnStep' = scnStep + 1
  /\ scnReplies' = scnReplies \o [r \in 1..Len(replies') |-> replies'[r].messages]
  /\ scnCalls' = scnCalls \o gptCalls'
  /\ UNCHANGED scnUser
  /\ UNCHANGED <<splitFrags, splitIn, splitOut>>
  /\ UNCHANGED <<tasks, running>>

ScnStart ==
  /\ scnStep = 1
  /\ \E ev \in EventsAt(remaining) : ev.user_id = scnUser /\ HandleStart(ev)
  /\ ScnTrack

ScnAnswer ==
  /\ scnStep \in 2..(Len(QUESTIONS) + 1)
  /\ \E ev \in EventsAt(remaining) : ev.user_id = scnUser /\ HandleAnswer(ev)
  \* the generation call does not raise: a request that fails has made its
  \* reply call
  /\ status' = "500" => replies' # <<>>
  /\ ScnTrack

ScnNext ==
  \/ scnStep = 0 /\ Next
  \/ \E u \in Users : ScnBegin(u)
  \/ ScnReceive
  \/ ScnStart
  \/ ScnAnswer

ScnSpec == Init /\ [][ScnNext]_vars

(***************************************************************************)
(* Two requests in flight.  FastAPI runs `callback`, an `async def`, as a  *)
(* task of one event loop; a task keeps the loop until it suspends.  Each  *)
(* request carries one text event, and both requests are of one user.      *)
(*   tasks    for each request, where its task stands (`at`), its event    *)
(*            and the session it read at main.py:162 (`state`)             *)
(*              "none"       not arrived, or answered                      *)
(*              "body"       at `await request.body()`, main.py:124        *)
(*              "summarize"  at `await summarize_with_gpt(...)`,           *)
(*                           main.py:167 or 193, the prompt being built    *)
(*                           from state["answers"]                         *)
(*   running  the request whose task keeps the event loop, 0 if none       *)
(***************************************************************************)
\* the user of the two requests
ConcUser == 1

\* an event loop that also gets control back while the generation call is
\* under way
Suspends_AtGeneration(at) == at \in {"body", "summarize"}

\* whether a task standing at `at` has given the event loop back.  Reading
\* the request body (main.py:124) suspends; summarize_with_gpt (main.py:58-93)
\* calls the synchronous client of main.py:48 and contains no await, so
\* awaiting it (main.py:167, 193) does not suspend.
Suspends(at) == at = "body"

CanRun(r) == running = 0 \/ running = r

\* task r goes on to stand at `at`
MoveTo(r, at, state) ==
  /\ tasks' = [tasks EXCEPT ![r] =
                IF at = "none" THEN NoTask
                ELSE [at |-> at, ev |-> tasks[r].ev, state |-> state]]
  /\ running' = IF at = "none" \/ Suspends(at) THEN 0 ELSE r

\* main.py:121-124: a request arrives and waits for its body
ConcArrive(r, ev) ==
  /\ running = 0
  /\ tasks[r].at = "none"
  /\ ev.type = "text"
  /\ tasks' = [tasks EXCEPT ![r] = [at |-> "body", ev |-> ev, state |-> NewSession]]
  /\ running' = 0
  /\ UNCHANGED <<user_states, replies, gptCalls>>

\* main.py:124-163, 176-190: from the body to the reply of steps 1, 2 and 5,
\* or to the generation call of steps 3 and 6
ConcDispatch(r) ==
  /\ CanRun(r)
  /\ tasks[r].at = "body"
  /\ LET ev == tasks[r].ev
         text == EventText(ev)
         user_id == ev.user_id
     IN IF text = START_KEYWORD
        THEN /\ user_states' = SetSession(user_states, user_id, NewSession)
             /\ gptCalls' = <<>>
             /\ \E ok \in BOOLEAN :
                  replies' = <<ReplyCall(ev, <<TextSendMessage(StartMessage)>>, ok)>>
             /\ MoveTo(r, "none", NewSession)
        ELSE IF user_id \notin DOMAIN user_states
        THEN /\ UNCHANGED user_states
             /\ gptCalls' = <<>>
             /\ \E ok \in BOOLEAN :
                  replies' = <<ReplyCall(ev, <<TextSendMessage(PLEASE_START_MSG)>>, ok)>>
             /\ MoveTo(r, "none", NewSession)
        ELSE IF text = STOP_KEYWORD
        THEN /\ UNCHANGED <<user_states, replies, gptCalls>>
             /\ MoveTo(r, "summarize", user_states[user_id])
        ELSE LET state == RecordAnswer(user_states[user_id], text)
             IN /\ user_states' = SetSession(user_states, user_id, state)
                /\ IF state.index < Len(QUESTIONS)
                   THEN /\ gptCalls' = <<>>
                        /\ \E ok \in BOOLEAN :
                             replies' =
                               <<ReplyCall(ev, <<TextSendMessage(QuestionMessage(state.index))>>, ok)>>
                        /\ MoveTo(r, "none", NewSession)
                   ELSE /\ UNCHANGED <<replies, gptCalls>>
                        /\ MoveTo(r, "summarize", state)

\* main.py:167-173 and 193-199: the generation call returns or raises, then
\* split, reply and del; del raises KeyError if the session is gone
ConcFinish(r) ==
  /\ CanRun(r)
  /\ tasks[r].at = "summarize"
  /\ \E gen \in GenOutcomes :
       LET ev == tasks[r].ev
           res == summarize_with_gpt(tasks[r].state.answers, gen)
       IN /\ gptCalls' = IF res.called THEN <<tasks[r].state.answers>> ELSE <<>>
          /\ IF res.raised
             THEN /\ replies' = <<>>
                  /\ UNCHANGED user_states
             ELSE \E ok \in BOOLEAN :
                    /\ replies' = <<ReplyCall(ev, split_recommendations(res.text), ok)>>
                    /\ user_states' =
                         IF ok /\ ev.user_id \in DOMAIN user_states
                         THEN DelSession(user_states, ev.user_id)
                         ELSE user_states
  /\ MoveTo(r, "none", NewSession)

ConcFrame == UNCHANGED <<remaining, event, status,
                         splitFrags, splitIn, splitOut,
                         scnUser, scnStep, scnReplies, scnCalls>>

ConcNext ==
  \/ \E r \in Requests : \E t \in RawTexts :
       ConcArrive(r, TextEvent(ConcUser, t, r)) /\ ConcFrame
  \/ \E r \in Requests : ConcDispatch(r) /\ ConcFrame
  \/ \E r \in Requests : ConcFinish(r) /\ ConcFrame

\* the event loop always runs a task that is ready
ConcSpec == Init /\ [][ConcNext]_vars /\ WF_vars(ConcNext)

TypeOK ==
  /\ DOMAIN user_states \subseteq Users
  /\ status \in {"idle", "running", "200", "400", "500"}
  /\ remaining \in 0..MaxEvents

(***************************************************************************)
(* Vocabulary of the properties.  A step that handles an event lowers      *)
(* `remaining`; the event it handles is event'.                            *)
(***************************************************************************)
N == Len(QUESTIONS)

Handles == remaining' < remaining
Sender == event'.user_id
Sent == strip(event'.text)
HadSession == Sender \in DOMAIN user_states
HasSession == Sender \in DOMAIN user_states'
IsKeyword(t) == t = START_KEYWORD \/ t = STOP_KEYWORD

\* exactly one reply call was made for the handled event, with its reply
\* token, carrying the messages ms
RepliedWith(ms) ==
  /\ Len(replies') = 1
  /\ replies'[1].reply_token = event'.reply_token
  /\ replies'[1].messages = ms

\* C1: in every reachable state every session of the session map has
\* 0 <= index <= N and len(answers) = index.
C1_SessionInvariant ==
  \A u \in DOMAIN user_states :
    /\ user_states[u].index \in 0..N
    /\ Len(user_states[u].answers) = user_states[u].index

\* a session left at index N by a failed finalization
C1_Witness ==
  /\ status = "500"
  /\ \E u \in DOMAIN user_states :
       user_states[u].index = N /\ Len(user_states[u].answers) = N

\* C2: for a session at index i < N a text that is neither keyword records
\* (question[i], text) and moves to index i+1; if i+1 < N the single reply is
\* "Q{i+2}. " followed by question[i+1] and the session stays; if i+1 = N the
\* finalization is started with the N pairs and no question is asked.
C2_AnswerAdvances ==
  [][ (/\ Handles
       /\ event'.type = "text"
       /\ ~IsKeyword(Sent)
       /\ HadSession
       /\ user_states[Sender].index < N)
      =>
      LET i == user_states[Sender].index
          recorded == Append(user_states[Sender].answers,
                             <<QUESTIONS[i + 1], Sent>>)
      IN IF i + 1 < N
         THEN /\ HasSession
              /\ user_states'[Sender] = [index |-> i + 1, answers |-> recorded]
              /\ RepliedWith(<<[type |-> "text",
                                text |-> <<"Q" \o ToString(i + 2) \o ".", " ">>
                                         \o QUESTIONS[i + 2]]>>)
              /\ gptCalls' = <<>>
         ELSE /\ gptCalls' = <<recorded>>
              /\ HasSession =>
                   user_states'[Sender] = [index |-> N, answers |-> recorded]
              /\ \A r \in 1..Len(replies') : \A m \in 1..Len(replies'[r].messages) :
                   \A q \in 1..N :
                     replies'[r].messages[m].text[1] # "Q" \o ToString(q) \o "."
    ]_vars

\* an answer to the third question was recorded and the fourth question asked
C2_Witness ==
  /\ event.type = "text"
  /\ ~IsKeyword(strip(event.text))
  /\ event.user_id \in DOMAIN user_states
  /\ user_states[event.user_id].index = 3
  /\ Len(replies) = 1
  /\ replies[1].messages[1].text = <<"Q4.", " ">> \o QUESTIONS[4]

\* C3: the start keyword always leaves the sender with a session at index 0
\* with no answers and replies with question[0] prefixed "Q1.", whatever the
\* previous state; the generation service is not called.
C3_StartResets ==
  [][ (Handles /\ event'.type = "text" /\ Sent = START_KEYWORD)
      =>
      /\ HasSession
      /\ user_states'[Sender] = [index |-> 0, answers |-> <<>>]
      /\ Len(replies') = 1
      /\ replies'[1].reply_token = event'.reply_token
      /\ Len(replies'[1].messages) = 1
      /\ LET t == replies'[1].messages[1].text
         IN /\ Len(t) >= 3
            /\ SubSeq(t, Len(t) - 2, Len(t)) = <<"Q1.", " ">> \o QUESTIONS[1]
      /\ gptCalls' = <<>>
    ]_vars

\* the start keyword was handled and the sender is at index 0
C3_Witness ==
  /\ event.type = "text"
  /\ strip(event.text) = START_KEYWORD
  /\ event.user_id \in DOMAIN user_states
  /\ user_states[event.user_id].index = 0
  /\ Len(replies) = 1

\* C4: for a user without a session any text other than the start keyword
\* (the stop keyword included) gets exactly one reply, the "please start"
\* instruction, creates no session and does not call the generation service.
C4_NotStarted ==
  [][ (/\ Handles
       /\ event'.type = "text"
       /\ Sent # START_KEYWORD
       /\ ~HadSession)
      =>
      /\ RepliedWith(<<[type |-> "text", text |-> PLEASE_START_MSG]>>)
      /\ ~HasSession
      /\ user_states' = user_states
      /\ gptCalls' = <<>>
    ]_vars

\* the stop keyword of a user without a session was answered by the
\* instruction
C4_Witness ==
  /\ event.type = "text"
  /\ strip(event.text) = STOP_KEYWORD
  /\ event.user_id \notin DOMAIN user_states
  /\ Len(replies) = 1
  /\ replies[1].messages = <<[type |-> "text", text |-> PLEASE_START_MSG]>>

\* C5: for a user with a session at any index 0..N the stop keyword finalizes
\* with exactly the answers accumulated so far, replies with the formatted
\* segments and leaves the user with no session.
C5_StopFinalizes ==
  [][ (/\ Handles
       /\ event'.type = "text"
       /\ Sent = STOP_KEYWORD
       /\ HadSession)
      =>
      LET answers == user_states[Sender].answers
      IN /\ gptCalls' = IF answers = <<>> THEN <<>> ELSE <<answers>>
         /\ Len(replies') = 1
         /\ replies'[1].reply_token = event'.reply_token
         /\ \/ \E t \in GenTexts :
                 /\ answers # <<>>
                 /\ replies'[1].messages = split_recommendations(t)
            \/ /\ answers = <<>>
               /\ replies'[1].messages = split_recommendations(NO_ANSWERS_MSG)
         /\ ~HasSession
    ]_vars

\* C6: a finalization with a non-empty answer list (by the stop keyword or by
\* the N-th answer) leaves the user with no session, whether the generation
\* call succeeded or failed.
C6_FinalizeDestroys ==
  [][ (Handles /\ gptCalls' # <<>>) => ~HasSession ]_vars

\* C7: the stop keyword right after start (empty answer list) never calls the
\* generation service, the reply is exactly one segment, the restart
\* instruction, and the session is destroyed afterwards.
C7_EmptyFinalize ==
  [][ (/\ Handles
       /\ event'.type = "text"
       /\ Sent = STOP_KEYWORD
       /\ HadSession
       /\ user_states[Sender].answers = <<>>)
      =>
      /\ gptCalls' = <<>>
      /\ RepliedWith(<<[type |-> "text", text |-> NO_ANSWERS_MSG]>>)
      /\ ~HasSession
    ]_vars

\* C9: the generation service is called at most once per handled event, and
\* exactly when the stop keyword arrives for a session with at least one
\* answer or a non-keyword text is handled for a session whose index reaches
\* N or is already N.
C9_GenerationOnlyOnFinalize ==
  [][ Handles =>
      /\ Len(gptCalls') <= 1
      /\ (gptCalls' # <<>>) <=>
           /\ event'.type = "text"
           /\ Sent # START_KEYWORD
           /\ HadSession
           /\ \/ Sent = STOP_KEYWORD /\ user_states[Sender].answers # <<>>
              \/ Sent # STOP_KEYWORD /\ user_states[Sender].index >= N - 1
    ]_vars

\* the N-th answer was handled: the generation service was called once with
\* N pairs, the reply went out and the session is gone
C9_Witness ==
  /\ event.type = "text"
  /\ ~IsKeyword(strip(event.text))
  /\ Len(gptCalls) = 1
  /\ Len(gptCalls[1]) = N
  /\ Len(replies) = 1
  /\ event.user_id \notin DOMAIN user_states


IsNonBlankFrag(f) == f.core # <<>>

\* C10: when the trimmed non-blank fragments between the "###" delimiters of
\* a text are f1..fk with k >= 1, segmentation returns exactly k segments in
\* order, f1 without prefix and "### " + fj for j >= 2; k is not capped.
C10_Segments ==
  LET kept == SelectSeq(splitFrags, IsNonBlankFrag)
      k == Len(kept)
  IN (splitOut # NotSplit /\ k >= 1) =>
       /\ Len(splitOut) = k
       /\ splitOut[1] = [type |-> "text", text |-> kept[1].core]
       /\ \A j \in 2..k :
            splitOut[j] =
              [type |-> "text", text |-> <<"#", "#", "#", " ">> \o kept[j].core]
       /\ (splitIn = <<"intro", " ", "#", "#", "#", " ", "item1", " ",
                       "#", "#", "#", " ", "item2">>)
            => splitOut = << [type |-> "text", text |-> <<"intro">>],
                             [type |-> "text", text |-> <<"#", "#", "#", " ", "item1">>],
                             [type |-> "text", text |-> <<"#", "#", "#", " ", "item2">>] >>

\* a text of six non-blank fragments was split into six segments, more than
\* the five messages one reply may carry
C10_Witness ==
  /\ Len(splitOut) = 6
  /\ Len(SelectSeq(splitFrags, IsNonBlankFrag)) = 6
  /\ splitOut[6].text = <<"#", "#", "#", " ", "x", " ", "#", "y">>


\* C8: after the start keyword and N texts that are not keywords, handled one
\* at a time with the generation call succeeding, the replies are the N
\* question prompts "Q1." .. "QN." in order followed by one finalize reply,
\* the generation service was called exactly once with the N pairs in
\* question order, and the user has no session.
C8_Scenario ==
  scnStep = N + 2 =>
    /\ Len(scnReplies) = N + 1
    /\ \A i \in 1..N :
         /\ Len(scnReplies[i]) = 1
         /\ LET t == scnReplies[i][1].text
            IN /\ Len(t) >= 3
               /\ SubSeq(t, Len(t) - 2, Len(t)) =
                    <<"Q" \o ToString(i) \o ".", " ">> \o QUESTIONS[i]
    /\ \E t \in GenTexts : scnReplies[N + 1] = split_recommendations(t)
    /\ Len(scnCalls) = 1
    /\ Len(scnCalls[1]) = N
    /\ \A i \in 1..N :
         scnCalls[1][i][1] = QUESTIONS[i] /\ ~IsKeyword(scnCalls[1][i][2])
    /\ scnUser \notin DOMAIN user_states


\* C11: segmentation never returns an empty list, and it returns the single
\* "generation failed" segment exactly when the input has no non-blank
\* fragment (empty, all whitespace, or only delimiters and whitespace); a
\* non-blank text without delimiter is returned as one segment.
C11_FallbackIffBlank ==
  splitOut # NotSplit =>
    /\ splitOut # <<>>
    /\ (splitOut = <<[type |-> "text", text |-> GENERATION_FAILED_MSG]>>)
         <=> (\A i \in 1..Len(splitFrags) : splitFrags[i].core = <<>>)
    /\ (Len(splitFrags) = 1 /\ splitFrags[1].core # <<>>)
         => splitOut = <<[type |-> "text", text |-> splitFrags[1].core]>>

\* a text made of delimiters and whitespace only was split into the fallback
C11_Witness ==
  /\ splitOut = <<[type |-> "text", text |-> GENERATION_FAILED_MSG]>>
  /\ Len(splitFrags) = 3
  /\ splitIn = <<" ", "\n", "#", "#", "#", "#", "#", "#", " ", "\n">>


\* C12: a failure while handling one event of a delivery does not prevent the
\* later events of the same delivery from being handled: after every handled
\* event the events behind it are still to be handled.
C12_ErrorsAreLocal ==
  [][ Handles => remaining' = remaining - 1 ]_vars

\* C13: once the signature is verified and the delivery parsed, the endpoint
\* returns the success acknowledgment, whatever happened while the events
\* were handled: no request ends with a server error.
C13_AlwaysAcknowledged ==
  status # "500"

\* C14: when the generation call fails during a finalization, no reply is
\* sent for the event, the generation call is not retried, the request fails
\* and the session keeps exactly the answers the call was made with.
C14_GenerationFailure ==
  [][ (Handles /\ gptCalls' # <<>>) =>
      /\ Len(gptCalls') = 1
      /\ (status' = "500" /\ \A r \in 1..Len(replies') : replies'[r].ok)
           => replies' = <<>>
      /\ replies' = <<>> =>
           /\ status' = "500"
           /\ remaining' = 0
           /\ HasSession
           /\ user_states'[Sender].answers = gptCalls'[1]
           /\ Sent = STOP_KEYWORD => user_states' = user_states
           /\ Sent # STOP_KEYWORD =>
                /\ user_states'[Sender].index = N
                /\ \/ user_states'[Sender] = user_states[Sender]
                   \/ user_states'[Sender].answers =
                        Append(user_states[Sender].answers, <<QUESTIONS[N], Sent>>)
    ]_vars

\* the generation call raised for the stop keyword of a user with three
\* answers: no reply, a failed request, the session as it was
C14_Witness ==
  /\ event.type = "text"
  /\ strip(event.text) = STOP_KEYWORD
  /\ gptCalls # <<>>
  /\ replies = <<>>
  /\ status = "500"
  /\ event.user_id \in DOMAIN user_states
  /\ user_states[event.user_id].index = 3
  /\ gptCalls[1] = user_states[event.user_id].answers

\* C15: a delivery with an invalid signature is rejected with status 400 and
\* changes neither the session map nor the replies; an event that is not a
\* text message is skipped without a reply or a session change, and the
\* events behind it are still handled.
C15_RejectedAndSkipped ==
  [][ /\ status' = "400" =>
           /\ user_states' = user_states
           /\ replies' = replies
           /\ gptCalls' = gptCalls
           /\ remaining' = 0
           /\ ~Handles
      /\ (Handles /\ event'.type # "text") =>
           /\ user_states' = user_states
           /\ replies' = <<>>
           /\ gptCalls' = <<>>
           /\ remaining' = remaining - 1
           /\ status' = IF remaining = 1 THEN "200" ELSE "running"
    ]_vars

\* a delivery with an invalid signature was rejected after a delivery that
\* ended with a skipped event; the sessions are still there
C15_Witness ==
  /\ status = "400"
  /\ event.type = "other"
  /\ replies = <<>>
  /\ user_states # <<>>

\* C16: handling an event of user u changes at most the session of u: for
\* every other user the presence, index and answers of the session are
\* unchanged; steps that handle no event change no session.
C16_OnlySenderChanges ==
  [][ \A v \in Users :
        (~Handles \/ v # Sender) =>
          /\ (v \in DOMAIN user_states') <=> (v \in DOMAIN user_states)
          /\ v \in DOMAIN user_states => user_states'[v] = user_states[v]
    ]_vars

\* user 1 has just finished (the session is gone) while user 2 is still at
\* index 7
C16_Witness ==
  /\ event.type = "text"
  /\ event.user_id = 1
  /\ 1 \notin DOMAIN user_states
  /\ Len(gptCalls) = 1
  /\ 2 \in DOMAIN user_states
  /\ user_states[2].index = 7

\* C17: an answer is recorded only for an existing session with index < N;
\* for a session left at index N a further non-keyword text records nothing,
\* leaves index and answers unchanged and starts the finalization again with
\* the same N answers; no session ever has more than N answers.
C17_NothingRecordedAtN ==
  [][ Handles =>
      /\ \A u \in DOMAIN user_states' : Len(user_states'[u].answers) <= N
      /\ (/\ event'.type = "text"
          /\ ~IsKeyword(Sent)
          /\ HadSession
          /\ user_states[Sender].index = N)
         =>
         /\ gptCalls' = <<user_states[Sender].answers>>
         /\ Len(gptCalls'[1]) = N
         /\ HasSession => user_states'[Sender] = user_states[Sender]
      /\ (/\ HasSession
          /\ user_states'[Sender].answers # <<>>
          /\ ~HadSession \/ user_states'[Sender].answers # user_states[Sender].answers)
         =>
         /\ event'.type = "text"
         /\ ~IsKeyword(Sent)
         /\ HadSession
         /\ user_states[Sender].index < N
    ]_vars

\* a non-keyword text was handled for a session at index N and the generation
\* call raised again: the session still has its N answers
C17_Witness ==
  /\ event.type = "text"
  /\ ~IsKeyword(strip(event.text))
  /\ event.user_id \in DOMAIN user_states
  /\ user_states[event.user_id].index = N
  /\ Len(user_states[event.user_id].answers) = N
  /\ gptCalls = <<user_states[event.user_id].answers>>
  /\ replies = <<>>

\* C19: every text event whose handling ends without a generation or reply
\* failure produces exactly one reply call, with the reply token of that
\* event; no event produces two reply calls or a reply call with another
\* token.
C19_OneReplyPerEvent ==
  [][ Handles =>
      /\ Len(replies') <= 1
      /\ \A r \in 1..Len(replies') : replies'[r].reply_token = event'.reply_token
      /\ (event'.type = "text" /\ status' # "500") =>
           /\ Len(replies') = 1
           /\ replies'[1].ok
           /\ replies'[1].messages # <<>>
    ]_vars

\* a finalization went through: one reply call carrying six messages
C19_Witness ==
  /\ event.type = "text"
  /\ status = "200"
  /\ Len(replies) = 1
  /\ replies[1].ok
  /\ replies[1].reply_token = event.reply_token
  /\ Len(replies[1].messages) = 6

\* C20: in every session the k-th recorded pair has question[k] as its
\* question, for every k up to index, and no recorded answer is the start or
\* the stop keyword.
C20_AnswersInQuestionOrder ==
  \A u \in DOMAIN user_states :
    \A k \in 1..user_states[u].index :
      /\ k <= Len(user_states[u].answers)
      /\ user_states[u].answers[k][1] = QUESTIONS[k]
      /\ ~IsKeyword(user_states[u].answers[k][2])

\* both users have answered, one five questions and the other two
C20_Witness ==
  /\ DOMAIN user_states = {1, 2}
  /\ user_states[1].index = 5
  /\ user_states[1].answers[5][1] = QUESTIONS[5]
  /\ user_states[2].index = 2


\* a request stands at the generation call while the session it read is no
\* longer the session of its user: the session was destroyed or replaced
Stale(r) ==
  /\ tasks[r].at = "summarize"
  /\ \/ tasks[r].ev.user_id \notin DOMAIN user_states
     \/ user_states[tasks[r].ev.user_id] # tasks[r].state

====
